---- MODULE Spec2Model ----
(***************************************************************************)
(* Stage 2 of the coherence diagnostic: the deterministic rules of         *)
(* src/src/stage2_rules.py.                                                *)
(*                                                                         *)
(* A confidence score is a Python float.  It is modelled as an integer     *)
(* number of hundredths (0.62 is 62, 1.0 is 100), which keeps every        *)
(* literal of the source and of its tests exact; the thresholds 0.8, 0.5   *)
(* and 0.2 are 80, 50 and 20.  The functions of the module are pure, so a  *)
(* behaviour is one call: Init draws the function and its arguments, and   *)
(* the function's action runs it to its return value or its exception.     *)
(***************************************************************************)
EXTENDS Integers, Sequences, FiniteSets

VARIABLES
    pc,     \* "call": the call is about to run; "done": it has returned or raised
    fn,     \* the function that is called
    args,   \* its arguments, a record named after the parameters
    ret,    \* the value it returned (NoValue before the return, and after a raise)
    exc     \* the exception it raised (NoException when none)

\* Concurrent callers of evaluate_concept (specification SpecCalls).
VARIABLES
    frames,     \* per caller: where its call stands, and the call's argument
    cells,      \* the namespaces that hold a value of the name `severity`
    observed,   \* the calls that have ended: their input and their outcome
    started     \* how many calls have been made

callVars == <<frames, cells, observed, started>>

\* One request to the backend of src/backend/main.py (specification SpecWeb).
VARIABLES
    request,     \* the request: endpoint, password, include_diagnosis
    client,      \* the global OpenRouter client: TRUE when it is configured
    usage_count, \* usage_count of the one row of the users table
    hpc,         \* where the request's handler stands
    locals,      \* the handler's confidence_scores, evaluation and remaining
    attempt,     \* the loop variable of the diagnosis function that is running
    outcomes,    \* how each call of client.chat.completions.create ended
    chunks,      \* how many text chunks the current stream has delivered
    sleeps,      \* the delays passed to asyncio.sleep, in seconds
    diagnosis,   \* what the diagnosis function returned (NoValue before)
    events,      \* the server-sent events yielded so far
    response     \* the HTTP response (NoValue before)

webVars ==
    <<request, client, usage_count, hpc, locals, attempt, outcomes, chunks,
      sleeps, diagnosis, events, response>>

\* Concurrent requests of one user (specification SpecRace); they share
\* usage_count and client with the single request above.
VARIABLES
    reqs         \* per request: endpoint, position, attempt and response

raceVars == <<reqs>>

\* Registration, verification and sessions (specification SpecAuth).
VARIABLES
    deployment,  \* "password": users of main.py; "email": users of auth.py
    now,         \* the clock, in hours
    users,       \* the rows of the users table, by their key
    daily_stats, \* users_created of each date that has a row in daily_stats
    waitlist,    \* the emails of the rows of the waitlist table
    issued,      \* how many tokens and passwords have been generated
    cookies,     \* the emails for which a session cookie has been set
    last         \* the last call and its result

authVars ==
    <<deployment, now, users, daily_stats, waitlist, issued, cookies, last>>

vars == <<pc, fn, args, ret, exc, callVars, webVars, raceVars, authVars>>

NoValue == "NoValue"
NoException == "NoException"
KeyError == "KeyError"

\* How far outside [0.0, 1.0] the confidences of the calls reach, in hundredths.
MaxOver == 3

\* The values of the variables a specification does not use.
CallsUnused ==
    /\ frames = <<>>
    /\ cells = <<>>
    /\ observed = <<>>
    /\ started = 0

WebUnused ==
    /\ request = <<>>
    /\ client = FALSE
    /\ usage_count = 0
    /\ hpc = "unused"
    /\ locals = <<>>
    /\ attempt = 0
    /\ outcomes = <<>>
    /\ chunks = 0
    /\ sleeps = <<>>
    /\ diagnosis = <<>>
    /\ events = <<>>
    /\ response = <<>>

RaceUnused == reqs = <<>>

AuthUnused ==
    /\ deployment = "unused"
    /\ now = 0
    /\ users = <<>>
    /\ daily_stats = <<>>
    /\ waitlist = <<>>
    /\ issued = 0
    /\ cookies = {}
    /\ last = <<>>

SingleCallUnused ==
    /\ pc = "unused"
    /\ fn = NoValue
    /\ args = NoValue
    /\ ret = NoValue
    /\ exc = NoException

-----------------------------------------------------------------------------
(* class Severity *)

ATTENTION_NEEDED == "ATTENTION_NEEDED"
WORTH_EXAMINING == "WORTH_EXAMINING"
SOLID == "SOLID"

Severity == {ATTENTION_NEEDED, WORTH_EXAMINING, SOLID}

(* Confidence thresholds, in hundredths *)

THRESHOLD_SOLID == 80
THRESHOLD_EXAMINE == 50
GAPS_THRESHOLD_SOLID == 20
GAPS_THRESHOLD_EXAMINE == 50

\* The five dimension names the module knows, in the order evaluate_concept
\* subscripts the severity map with them.
Dimensions == <<"CLAIM", "EVIDENCE", "SCOPE", "ASSUMPTIONS", "GAPS">>

DimensionSet == {Dimensions[i] : i \in 1..Len(Dimensions)}

\* A dictionary key that is none of the five dimension names.
UnknownKey == "TONE"

-----------------------------------------------------------------------------
(* classify_confidence *)

\* Mutant of classify_confidence: the standard-polarity comparisons made
\* inclusive.
classify_confidence_inclusive(dimension, confidence) ==
    IF dimension = "GAPS"
    THEN IF confidence > GAPS_THRESHOLD_EXAMINE THEN ATTENTION_NEEDED
         ELSE IF confidence > GAPS_THRESHOLD_SOLID THEN WORTH_EXAMINING
         ELSE SOLID
    ELSE IF confidence >= THRESHOLD_SOLID THEN SOLID
         ELSE IF confidence >= THRESHOLD_EXAMINE THEN WORTH_EXAMINING
         ELSE ATTENTION_NEEDED

\* Mutant of classify_confidence: the GAPS ladder tests "< GAPS_THRESHOLD_SOLID"
\* in an elif and has no else, so it falls off its end and returns None.
classify_confidence_partial(dimension, confidence) ==
    IF dimension = "GAPS"
    THEN IF confidence > GAPS_THRESHOLD_EXAMINE THEN ATTENTION_NEEDED
         ELSE IF confidence > GAPS_THRESHOLD_SOLID THEN WORTH_EXAMINING
         ELSE IF confidence < GAPS_THRESHOLD_SOLID THEN SOLID
         ELSE "None"
    ELSE IF confidence > THRESHOLD_SOLID THEN SOLID
         ELSE IF confidence > THRESHOLD_EXAMINE THEN WORTH_EXAMINING
         ELSE ATTENTION_NEEDED

\* Mutant of classify_confidence: GAPS is classified like the other dimensions.
classify_confidence_no_gaps(dimension, confidence) ==
    IF confidence > THRESHOLD_SOLID THEN SOLID
    ELSE IF confidence > THRESHOLD_EXAMINE THEN WORTH_EXAMINING
    ELSE ATTENTION_NEEDED

classify_confidence(dimension, confidence) ==
    IF dimension = "GAPS"
    THEN IF confidence > GAPS_THRESHOLD_EXAMINE THEN ATTENTION_NEEDED
         ELSE IF confidence > GAPS_THRESHOLD_SOLID THEN WORTH_EXAMINING
         ELSE SOLID
    ELSE IF confidence > THRESHOLD_SOLID THEN SOLID
         ELSE IF confidence > THRESHOLD_EXAMINE THEN WORTH_EXAMINING
         ELSE ATTENTION_NEEDED

\* stage1_output is a dict: a function from its keys to confidences.
get_severity_map(stage1_output) ==
    [dim \in DOMAIN stage1_output |->
        classify_confidence(dim, stage1_output[dim])]

-----------------------------------------------------------------------------
(* Rule 1: evaluate_claim_evidence *)

\* The if/elif ladder of evaluate_claim_evidence is a priority table: the four
\* conditions, numbered in source order, and the finding each branch returns;
\* branch 5 is the final else.  The finding texts are the source's, with its
\* non-ASCII dashes written "--".

\* Mutants of ClaimEvidenceCondition: branch 4 looks at the claim only; branch 3
\* joins its two tests with "or".
ClaimEvidenceCondition_claim_only(branch, claim_severity, evidence_severity) ==
    CASE branch = 1 ->
            claim_severity = SOLID /\ evidence_severity = ATTENTION_NEEDED
      [] branch = 2 ->
            claim_severity = ATTENTION_NEEDED /\ evidence_severity = SOLID
      [] branch = 3 ->
            claim_severity = ATTENTION_NEEDED /\ evidence_severity = ATTENTION_NEEDED
      [] branch = 4 ->
            claim_severity = WORTH_EXAMINING

ClaimEvidenceCondition_or(branch, claim_severity, evidence_severity) ==
    CASE branch = 1 ->
            claim_severity = SOLID /\ evidence_severity = ATTENTION_NEEDED
      [] branch = 2 ->
            claim_severity = ATTENTION_NEEDED /\ evidence_severity = SOLID
      [] branch = 3 ->
            claim_severity = ATTENTION_NEEDED \/ evidence_severity = ATTENTION_NEEDED
      [] branch = 4 ->
            claim_severity = WORTH_EXAMINING \/ evidence_severity = WORTH_EXAMINING

ClaimEvidenceCondition(branch, claim_severity, evidence_severity) ==
    CASE branch = 1 ->
            claim_severity = SOLID /\ evidence_severity = ATTENTION_NEEDED
      [] branch = 2 ->
            claim_severity = ATTENTION_NEEDED /\ evidence_severity = SOLID
      [] branch = 3 ->
            claim_severity = ATTENTION_NEEDED /\ evidence_severity = ATTENTION_NEEDED
      [] branch = 4 ->
            claim_severity = WORTH_EXAMINING \/ evidence_severity = WORTH_EXAMINING

ClaimEvidenceFinding(branch) ==
    CASE branch = 1 ->
            [status |-> "CLAIM_WITHOUT_EVIDENCE",
             severity |-> ATTENTION_NEEDED,
             finding |-> "You've made a claim but haven't shown how you know it's true.",
             prompts |-> <<"What observation, interview, or data supports this claim?",
                           "How do you know users actually need this?">>]
      [] branch = 2 ->
            [status |-> "EVIDENCE_WITHOUT_CLAIM",
             severity |-> ATTENTION_NEEDED,
             finding |-> "You've gathered evidence but haven't stated what you're claiming.",
             prompts |-> <<"What specific, testable claim does this evidence support?",
                           "What will change if your design succeeds?">>]
      [] branch = 3 ->
            [status |-> "FOUNDATION_MISSING",
             severity |-> ATTENTION_NEEDED,
             finding |-> "Neither a clear claim nor supporting evidence is present.",
             prompts |-> <<"What specifically will your design achieve?",
                           "How will you know if it worked?">>]
      [] branch = 4 ->
            [status |-> "CLAIM_EVIDENCE_UNCLEAR",
             severity |-> WORTH_EXAMINING,
             finding |-> "Claim and evidence relationship is unclear -- one or both are vague.",
             prompts |-> <<"Can you state your claim more specifically?",
                           "What concrete evidence supports this direction?">>]
      [] OTHER ->
            [status |-> "CLAIM_EVIDENCE_ALIGNED",
             severity |-> SOLID,
             finding |-> "Claim is stated and evidence is present.",
             prompts |-> <<>>]

\* The order in which the source checks the four conditions.
SourceOrder == <<1, 2, 3, 4>>

\* First match wins: the branch taken when the conditions are checked in
\* `order`, the final else (5) when none holds.
ClaimEvidenceBranch(order, claim_severity, evidence_severity) ==
    LET matching == {i \in 1..4 :
            ClaimEvidenceCondition(order[i], claim_severity, evidence_severity)}
    IN  IF matching = {} THEN 5
        ELSE order[CHOOSE i \in matching : \A j \in matching : i <= j]

evaluate_claim_evidence(claim_severity, evidence_severity) ==
    ClaimEvidenceFinding(
        ClaimEvidenceBranch(SourceOrder, claim_severity, evidence_severity))

-----------------------------------------------------------------------------
(* Rule 2: evaluate_scope *)

\* Mutant of evaluate_scope: the statuses of the first two branches exchanged.
evaluate_scope_swapped(scope_severity) ==
    IF scope_severity = ATTENTION_NEEDED
    THEN [status |-> "SCOPE_UNCLEAR",
          severity |-> ATTENTION_NEEDED,
          finding |-> "The scope is unbounded or unstated.",
          prompts |-> <<"Who specifically is this for?",
                        "What are the boundaries of your design context?">>]
    ELSE IF scope_severity = WORTH_EXAMINING
    THEN [status |-> "SCOPE_UNBOUNDED",
          severity |-> WORTH_EXAMINING,
          finding |-> "Scope is mentioned but vague -- boundaries aren't clear.",
          prompts |-> <<"Can you be more specific about who this is for?",
                        "Where does this apply, and where doesn't it?">>]
    ELSE [status |-> "SCOPE_BOUNDED",
          severity |-> SOLID,
          finding |-> "Scope is explicitly stated.",
          prompts |-> <<>>]

evaluate_scope(scope_severity) ==
    IF scope_severity = ATTENTION_NEEDED
    THEN [status |-> "SCOPE_UNBOUNDED",
          severity |-> ATTENTION_NEEDED,
          finding |-> "The scope is unbounded or unstated.",
          prompts |-> <<"Who specifically is this for?",
                        "What are the boundaries of your design context?">>]
    ELSE IF scope_severity = WORTH_EXAMINING
    THEN [status |-> "SCOPE_UNCLEAR",
          severity |-> WORTH_EXAMINING,
          finding |-> "Scope is mentioned but vague -- boundaries aren't clear.",
          prompts |-> <<"Can you be more specific about who this is for?",
                        "Where does this apply, and where doesn't it?">>]
    ELSE [status |-> "SCOPE_BOUNDED",
          severity |-> SOLID,
          finding |-> "Scope is explicitly stated.",
          prompts |-> <<>>]

-----------------------------------------------------------------------------
(* Rule 3: evaluate_assumptions *)

\* Mutant of evaluate_assumptions: the else branch mirrors its input.
evaluate_assumptions_mirror(assumptions_severity) ==
    IF assumptions_severity = ATTENTION_NEEDED
    THEN [status |-> "ASSUMPTIONS_HIDDEN",
          severity |-> ATTENTION_NEEDED,
          finding |-> "Key assumptions are not acknowledged.",
          prompts |-> <<"What are you assuming about your users?",
                        "What must be true for your design to work?",
                        "Which assumption are you least sure about?">>]
    ELSE IF assumptions_severity = WORTH_EXAMINING
    THEN [status |-> "ASSUMPTIONS_UNCLEAR",
          severity |-> WORTH_EXAMINING,
          finding |-> "Some assumptions mentioned but not clearly stated.",
          prompts |-> <<"Can you state your assumptions more explicitly?",
                        "What would prove your assumptions wrong?">>]
    ELSE [status |-> "ASSUMPTIONS_ACKNOWLEDGED",
          severity |-> SOLID,
          finding |-> "Assumptions are acknowledged--worth examining them.",
          prompts |-> <<"How confident are you in each assumption?",
                        "What would prove your assumptions wrong?">>]

evaluate_assumptions(assumptions_severity) ==
    IF assumptions_severity = ATTENTION_NEEDED
    THEN [status |-> "ASSUMPTIONS_HIDDEN",
          severity |-> ATTENTION_NEEDED,
          finding |-> "Key assumptions are not acknowledged.",
          prompts |-> <<"What are you assuming about your users?",
                        "What must be true for your design to work?",
                        "Which assumption are you least sure about?">>]
    ELSE IF assumptions_severity = WORTH_EXAMINING
    THEN [status |-> "ASSUMPTIONS_UNCLEAR",
          severity |-> WORTH_EXAMINING,
          finding |-> "Some assumptions mentioned but not clearly stated.",
          prompts |-> <<"Can you state your assumptions more explicitly?",
                        "What would prove your assumptions wrong?">>]
    ELSE [status |-> "ASSUMPTIONS_ACKNOWLEDGED",
          severity |-> WORTH_EXAMINING,
          finding |-> "Assumptions are acknowledged--worth examining them.",
          prompts |-> <<"How confident are you in each assumption?",
                        "What would prove your assumptions wrong?">>]

-----------------------------------------------------------------------------
(* Rule 4: evaluate_gaps *)

evaluate_gaps(gaps_severity) ==
    IF gaps_severity = ATTENTION_NEEDED
    THEN [status |-> "REASONING_GAPS_PRESENT",
          severity |-> ATTENTION_NEEDED,
          finding |-> "There are logical jumps in the reasoning.",
          prompts |-> <<"What connects your research findings to this specific solution?",
                        "How does the problem lead to your proposed design?">>]
    ELSE IF gaps_severity = WORTH_EXAMINING
    THEN [status |-> "REASONING_GAPS_UNCLEAR",
          severity |-> WORTH_EXAMINING,
          finding |-> "Some reasoning connections are unclear.",
          prompts |-> <<"Can you make the logical steps more explicit?",
                        "What's the causal chain from problem to solution?">>]
    ELSE [status |-> "REASONING_CONNECTED",
          severity |-> SOLID,
          finding |-> "Reasoning chain is connected.",
          prompts |-> <<>>]

-----------------------------------------------------------------------------
(* Combined evaluation: evaluate_concept *)

\* The keys of the four findings in the evaluation dict.
FindingKeys == {"claim_evidence", "scope", "assumptions", "gaps"}

\* Mutant of count_severity: the dimensions of severity_levels are counted
\* instead of the four findings.
count_severity_dimensions(evaluation, level) ==
    Cardinality({dim \in DOMAIN evaluation.severity_levels :
                    evaluation.severity_levels[dim] = level})

\* Mutant of count_severity: the gaps finding is left out of the list.
count_severity_three(evaluation, level) ==
    Cardinality({key \in FindingKeys \ {"gaps"} : evaluation[key].severity = level})

\* Mutant of count_severity: the counts are kept in module-level tallies that
\* are never reset, so each count carries what earlier calls added.
count_severity_tally(evaluation, level) ==
    Cardinality({key \in FindingKeys : evaluation[key].severity = level})
        + Len(observed)

\* sum(1 for e in [the four findings] if e["severity"] == level)
count_severity(evaluation, level) ==
    Cardinality({key \in FindingKeys : evaluation[key].severity = level})

\* The dict evaluate_concept builds from a severity map that holds the five
\* dimensions, and the summary it adds to it.
build_evaluation(severity, stage1_output) ==
    LET evaluation ==
            [claim_evidence |->
                evaluate_claim_evidence(severity["CLAIM"], severity["EVIDENCE"]),
             scope |-> evaluate_scope(severity["SCOPE"]),
             assumptions |-> evaluate_assumptions(severity["ASSUMPTIONS"]),
             gaps |-> evaluate_gaps(severity["GAPS"]),
             severity_levels |-> severity,
             confidence_scores |-> stage1_output]
        attention_count == count_severity(evaluation, ATTENTION_NEEDED)
        examine_count == count_severity(evaluation, WORTH_EXAMINING)
        solid_count == count_severity(evaluation, SOLID)
    IN  [claim_evidence |-> evaluation.claim_evidence,
         scope |-> evaluation.scope,
         assumptions |-> evaluation.assumptions,
         gaps |-> evaluation.gaps,
         severity_levels |-> evaluation.severity_levels,
         confidence_scores |-> evaluation.confidence_scores,
         summary |->
            [attention_count |-> attention_count,
             examine_count |-> examine_count,
             solid_count |-> solid_count,
             total_dimensions |-> 4,
             overall_status |->
                IF attention_count > 0 THEN "NEEDS_WORK" ELSE "COHERENT"]]

\* Mutant of evaluate_concept: the severity map is read with dict.get, so a
\* missing dimension is None and falls into the else branch of its rule.
evaluate_concept_get(stage1_output) ==
    LET severity == get_severity_map(stage1_output)
        padded == [dim \in DimensionSet \cup DOMAIN severity |->
                      IF dim \in DOMAIN severity THEN severity[dim] ELSE "None"]
    IN  [exc |-> NoException, ret |-> build_evaluation(padded, stage1_output)]

\* The outcome of a call: the exception raised, or the value returned.  The
\* subscripts severity["CLAIM"] .. severity["GAPS"] raise KeyError for a
\* dimension the severity map lacks, before any dict is built.
evaluate_concept(stage1_output) ==
    LET severity == get_severity_map(stage1_output)
    IN  IF \E i \in 1..Len(Dimensions) : Dimensions[i] \notin DOMAIN severity
        THEN [exc |-> KeyError, ret |-> NoValue]
        ELSE [exc |-> NoException,
              ret |-> build_evaluation(severity, stage1_output)]

-----------------------------------------------------------------------------
(* The calls *)

Confidences == (0 - MaxOver)..(100 + MaxOver)

ClassifyArgs ==
    [dimension : DimensionSet \cup {UnknownKey}, confidence : Confidences]

\* A legacy binary value 0 / 1 as a confidence: Python compares an int with
\* the float thresholds by value, so the int 1 is the confidence 1.0.
legacy_binary(bit) == bit * 100

\* The example input of the module's __main__ block.
example_input ==
    [CLAIM |-> 62, EVIDENCE |-> 28, SCOPE |-> 35, ASSUMPTIONS |-> 42, GAPS |-> 18]

\* The inputs of test_full_evaluation and test_all_states.
test_cases ==
    { [CLAIM |-> 92, EVIDENCE |-> 28, SCOPE |-> 85, ASSUMPTIONS |-> 65, GAPS |-> 12],
      [CLAIM |-> 95, EVIDENCE |-> 90, SCOPE |-> 88, ASSUMPTIONS |-> 85, GAPS |-> 10],
      [CLAIM |-> 25, EVIDENCE |-> 30, SCOPE |-> 20, ASSUMPTIONS |-> 15, GAPS |-> 70],
      [CLAIM |-> 65, EVIDENCE |-> 45, SCOPE |-> 90, ASSUMPTIONS |-> 55, GAPS |-> 35],
      [CLAIM |-> 92, EVIDENCE |-> 22, SCOPE |-> 85, ASSUMPTIONS |-> 75, GAPS |-> 15],
      [CLAIM |-> 30, EVIDENCE |-> 88, SCOPE |-> 75, ASSUMPTIONS |-> 60, GAPS |-> 20] }

\* Confidences on both sides of each threshold, at the ends of [0.0, 1.0] and
\* beyond them.
StandardSamples ==
    {0 - MaxOver, 0, THRESHOLD_EXAMINE, THRESHOLD_EXAMINE + 1,
     THRESHOLD_SOLID, THRESHOLD_SOLID + 1, 100, 100 + MaxOver}

GapsSamples ==
    {0 - MaxOver, 0, GAPS_THRESHOLD_SOLID - 1, GAPS_THRESHOLD_SOLID,
     GAPS_THRESHOLD_SOLID + 1, GAPS_THRESHOLD_EXAMINE,
     GAPS_THRESHOLD_EXAMINE + 1, 100, 100 + MaxOver}

\* Dicts that hold the five dimensions.
CompleteInputs ==
    [CLAIM : StandardSamples \cup {example_input.CLAIM},
     EVIDENCE : StandardSamples \cup {example_input.EVIDENCE},
     SCOPE : StandardSamples \cup {example_input.SCOPE},
     ASSUMPTIONS : StandardSamples \cup {example_input.ASSUMPTIONS},
     GAPS : GapsSamples \cup {example_input.GAPS}]

\* Dicts over any set of keys, the unknown key among them, with the
\* confidences of test_confidence_thresholds.
PartialInputs ==
    UNION {[keys -> {15, 35, 60, 95}] :
              keys \in SUBSET (DimensionSet \cup {UnknownKey})}

Init ==
    /\ CallsUnused
    /\ WebUnused
    /\ RaceUnused
    /\ AuthUnused
    /\ pc = "call"
    /\ ret = NoValue
    /\ exc = NoException
    /\ \/ fn = "classify_confidence" /\ args \in ClassifyArgs
       \/ /\ fn = "evaluate_claim_evidence"
          /\ args \in [claim_severity : Severity, evidence_severity : Severity]
       \/ fn = "evaluate_scope" /\ args \in [scope_severity : Severity]
       \/ fn = "evaluate_assumptions" /\ args \in [assumptions_severity : Severity]
       \/ fn = "evaluate_gaps" /\ args \in [gaps_severity : Severity]
       \/ /\ fn = "evaluate_concept"
          /\ \/ args \in [stage1_output : CompleteInputs]
             \/ args \in [stage1_output : test_cases]
             \/ args \in [stage1_output : PartialInputs]

Do_classify_confidence ==
    /\ pc = "call"
    /\ fn = "classify_confidence"
    /\ ret' = classify_confidence(args.dimension, args.confidence)
    /\ pc' = "done"
    /\ UNCHANGED <<fn, args, exc, callVars, webVars, raceVars, authVars>>

Do_evaluate_claim_evidence ==
    /\ pc = "call"
    /\ fn = "evaluate_claim_evidence"
    /\ ret' = evaluate_claim_evidence(args.claim_severity, args.evidence_severity)
    /\ pc' = "done"
    /\ UNCHANGED <<fn, args, exc, callVars, webVars, raceVars, authVars>>

Do_evaluate_scope ==
    /\ pc = "call"
    /\ fn = "evaluate_scope"
    /\ ret' = evaluate_scope(args.scope_severity)
    /\ pc' = "done"
    /\ UNCHANGED <<fn, args, exc, callVars, webVars, raceVars, authVars>>

Do_evaluate_assumptions ==
    /\ pc = "call"
    /\ fn = "evaluate_assumptions"
    /\ ret' = evaluate_assumptions(args.assumptions_severity)
    /\ pc' = "done"
    /\ UNCHANGED <<fn, args, exc, callVars, webVars, raceVars, authVars>>

Do_evaluate_gaps ==
    /\ pc = "call"
    /\ fn = "evaluate_gaps"
    /\ ret' = evaluate_gaps(args.gaps_severity)
    /\ pc' = "done"
    /\ UNCHANGED <<fn, args, exc, callVars, webVars, raceVars, authVars>>

Do_evaluate_concept ==
    /\ pc = "call"
    /\ fn = "evaluate_concept"
    /\ LET outcome == evaluate_concept(args.stage1_output)
       IN  /\ ret' = outcome.ret
           /\ exc' = outcome.exc
    /\ pc' = "done"
    /\ UNCHANGED <<fn, args, callVars, webVars, raceVars, authVars>>

Next ==
    \/ Do_classify_confidence
    \/ Do_evaluate_claim_evidence
    \/ Do_evaluate_scope
    \/ Do_evaluate_assumptions
    \/ Do_evaluate_gaps
    \/ Do_evaluate_concept

Spec == Init /\ [][Next]_vars

-----------------------------------------------------------------------------
(* Properties *)

\* The call of f has returned a value.
Returned(f) == pc = "done" /\ fn = f /\ exc = NoException

\* The call of f has ended, with a value or an exception.
Ended(f) == pc = "done" /\ fn = f

\* The confidence of the call lies in [0.0, 1.0].
InUnitInterval(confidence) == 0 <= confidence /\ confidence <= 100

StandardDimensions == {"CLAIM", "EVIDENCE", "SCOPE", "ASSUMPTIONS"}

\* C1: for GAPS and every confidence c in [0,1], classify_confidence gives
\* ATTENTION_NEEDED when c >= 0.5, WORTH_EXAMINING when 0.2 <= c < 0.5 and
\* SOLID when c < 0.2.
C1_GapsBoundsInclusive ==
    ( /\ Returned("classify_confidence")
      /\ args.dimension = "GAPS"
      /\ InUnitInterval(args.confidence) )
    => /\ args.confidence >= 50 => ret = ATTENTION_NEEDED
       /\ (20 <= args.confidence /\ args.confidence < 50) => ret = WORTH_EXAMINING
       /\ args.confidence < 20 => ret = SOLID

\* C2: for CLAIM, EVIDENCE, SCOPE, ASSUMPTIONS and every confidence c in [0,1],
\* classify_confidence gives SOLID when c > 0.8, WORTH_EXAMINING when
\* 0.5 < c <= 0.8 and ATTENTION_NEEDED when c <= 0.5.
C2_StandardBounds ==
    ( /\ Ended("classify_confidence")
      /\ args.dimension \in StandardDimensions
      /\ InUnitInterval(args.confidence) )
    => /\ exc = NoException
       /\ args.confidence > 80 => ret = SOLID
       /\ (50 < args.confidence /\ args.confidence <= 80) => ret = WORTH_EXAMINING
       /\ args.confidence <= 50 => ret = ATTENTION_NEEDED

\* A standard-polarity confidence on a boundary got the worse level.
C2_Witness ==
    /\ Returned("classify_confidence")
    /\ args.dimension = "EVIDENCE"
    /\ args.confidence = 80
    /\ ret = WORTH_EXAMINING

\* C3: evaluate_claim_evidence maps the nine pairs of severities as the table
\* says, and takes its final else branch for (SOLID, SOLID) only.
C3_ClaimEvidenceTable ==
    Ended("evaluate_claim_evidence") =>
        LET c == args.claim_severity
            e == args.evidence_severity
            expected ==
                IF c = SOLID /\ e = ATTENTION_NEEDED
                THEN <<"CLAIM_WITHOUT_EVIDENCE", ATTENTION_NEEDED>>
                ELSE IF c = ATTENTION_NEEDED /\ e = SOLID
                THEN <<"EVIDENCE_WITHOUT_CLAIM", ATTENTION_NEEDED>>
                ELSE IF c = ATTENTION_NEEDED /\ e = ATTENTION_NEEDED
                THEN <<"FOUNDATION_MISSING", ATTENTION_NEEDED>>
                ELSE IF c = SOLID /\ e = SOLID
                THEN <<"CLAIM_EVIDENCE_ALIGNED", SOLID>>
                ELSE <<"CLAIM_EVIDENCE_UNCLEAR", WORTH_EXAMINING>>
        IN  /\ exc = NoException
            /\ <<ret.status, ret.severity>> = expected
            /\ (ClaimEvidenceBranch(SourceOrder, c, e) = 5)
                   <=> (c = SOLID /\ e = SOLID)

\* Two absent sides gave FOUNDATION_MISSING.
C3_Witness ==
    /\ Returned("evaluate_claim_evidence")
    /\ args.claim_severity = ATTENTION_NEEDED
    /\ args.evidence_severity = ATTENTION_NEEDED
    /\ ret.status = "FOUNDATION_MISSING"

\* The orders in which the four conditions can be checked.
BranchOrders ==
    {order \in [1..4 -> 1..4] : \A i, j \in 1..4 : order[i] = order[j] => i = j}

\* C4, as stated: there is a pair of severities for which checking the
\* branches of evaluate_claim_evidence in a different order yields a different
\* finding (stated of the states in which the rule has run).
C4_OrderChangesFinding ==
    Returned("evaluate_claim_evidence") =>
        \E c \in Severity, e \in Severity, order \in BranchOrders :
            ClaimEvidenceFinding(ClaimEvidenceBranch(order, c, e))
                # evaluate_claim_evidence(c, e)

\* C4, amended: the four conditions of evaluate_claim_evidence exclude one
\* another, so for every pair of severities every order of checking them
\* yields the finding the source order yields.
C4_OrderIrrelevant ==
    Returned("evaluate_claim_evidence") =>
        LET c == args.claim_severity
            e == args.evidence_severity
        IN  /\ \A order \in BranchOrders :
                  ClaimEvidenceFinding(ClaimEvidenceBranch(order, c, e)) = ret
            /\ \A i, j \in 1..4 :
                  ( /\ ClaimEvidenceCondition(i, c, e)
                    /\ ClaimEvidenceCondition(j, c, e) ) => i = j

\* The pair the claim names: one side WORTH_EXAMINING, the other
\* ATTENTION_NEEDED.
C4_Witness ==
    /\ Returned("evaluate_claim_evidence")
    /\ args.claim_severity = WORTH_EXAMINING
    /\ args.evidence_severity = ATTENTION_NEEDED
    /\ ret.status = "CLAIM_EVIDENCE_UNCLEAR"

\* What C5 says of the example input, but for the attention count.
ExampleFindings ==
    /\ exc = NoException
    /\ ret.severity_levels =
          [CLAIM |-> WORTH_EXAMINING, EVIDENCE |-> ATTENTION_NEEDED,
           SCOPE |-> ATTENTION_NEEDED, ASSUMPTIONS |-> ATTENTION_NEEDED,
           GAPS |-> SOLID]
    /\ ret.claim_evidence.status = "CLAIM_EVIDENCE_UNCLEAR"
    /\ ret.scope.status = "SCOPE_UNBOUNDED"
    /\ ret.assumptions.status = "ASSUMPTIONS_HIDDEN"
    /\ ret.gaps.status = "REASONING_CONNECTED"
    /\ ret.summary.overall_status = "NEEDS_WORK"

\* C5, as stated: for the example input evaluate_concept returns the listed
\* severities and statuses, attention_count 3 and NEEDS_WORK.
C5_ExampleAttentionThree ==
    (Ended("evaluate_concept") /\ args.stage1_output = example_input)
    => (ExampleFindings /\ ret.summary.attention_count = 3)

\* C5, amended: for the example input evaluate_concept returns the listed
\* severities and statuses, attention_count 2 (the scope and the assumptions
\* findings) and NEEDS_WORK.
C5_ExampleAttentionTwo ==
    (Ended("evaluate_concept") /\ args.stage1_output = example_input)
    => (ExampleFindings /\ ret.summary.attention_count = 2)

\* The example input has been evaluated.
C5_Witness ==
    /\ Returned("evaluate_concept")
    /\ args.stage1_output = example_input
    /\ ret.summary.examine_count = 1

\* Some dimension of the input has a confidence outside [0.0, 1.0].
HasOutOfRange(stage1_output) ==
    \E dim \in DOMAIN stage1_output \cap DimensionSet :
        ~InUnitInterval(stage1_output[dim])

\* C6: evaluate_concept raises, and returns no Evaluation, for an input with a
\* confidence below 0 or above 1.
C6_OutOfRangeRaises ==
    (Ended("evaluate_concept") /\ HasOutOfRange(args.stage1_output))
    => (exc # NoException /\ ret = NoValue)

\* C7: evaluate_concept raises, and returns nothing, for an input that lacks
\* one of the five dimensions; what it returns holds the four findings, the
\* five severities and the summary.
C7_MissingKeyRaises ==
    Ended("evaluate_concept") =>
        /\ ~(DimensionSet \subseteq DOMAIN args.stage1_output)
              => (exc = KeyError /\ ret = NoValue)
        /\ exc = NoException
              => /\ FindingKeys \cup {"summary", "severity_levels"} \subseteq DOMAIN ret
                 /\ DimensionSet \subseteq DOMAIN ret.severity_levels

\* An input without GAPS ended in a KeyError.
C7_Witness ==
    /\ Ended("evaluate_concept")
    /\ DOMAIN args.stage1_output = StandardDimensions
    /\ exc = KeyError
    /\ ret = NoValue

\* C8: evaluate_concept rejects an input with a key other than the five
\* dimensions, so the severity_levels of every returned Evaluation has
\* exactly the five keys.
C8_ExtraKeyRejected ==
    Ended("evaluate_concept") =>
        /\ ~(DOMAIN args.stage1_output \subseteq DimensionSet)
              => (exc # NoException /\ ret = NoValue)
        /\ exc = NoException => DOMAIN ret.severity_levels = DimensionSet

\* C9: evaluate_assumptions never reports SOLID: ATTENTION_NEEDED gives
\* ASSUMPTIONS_HIDDEN / ATTENTION_NEEDED, WORTH_EXAMINING gives
\* ASSUMPTIONS_UNCLEAR / WORTH_EXAMINING, SOLID gives ASSUMPTIONS_ACKNOWLEDGED /
\* WORTH_EXAMINING; nor does the assumptions finding of an Evaluation.
C9_AssumptionsNeverSolid ==
    /\ Ended("evaluate_assumptions") =>
          /\ exc = NoException
          /\ ret.severity # SOLID
          /\ <<ret.status, ret.severity>> =
                CASE args.assumptions_severity = ATTENTION_NEEDED ->
                        <<"ASSUMPTIONS_HIDDEN", ATTENTION_NEEDED>>
                  [] args.assumptions_severity = WORTH_EXAMINING ->
                        <<"ASSUMPTIONS_UNCLEAR", WORTH_EXAMINING>>
                  [] args.assumptions_severity = SOLID ->
                        <<"ASSUMPTIONS_ACKNOWLEDGED", WORTH_EXAMINING>>
    /\ Returned("evaluate_concept") =>
          /\ ret.assumptions.severity # SOLID
          /\ ret.severity_levels["ASSUMPTIONS"] = SOLID
                => /\ ret.assumptions.status = "ASSUMPTIONS_ACKNOWLEDGED"
                   /\ ret.assumptions.severity = WORTH_EXAMINING

\* Acknowledged assumptions were reported WORTH_EXAMINING.
C9_Witness ==
    /\ Returned("evaluate_assumptions")
    /\ args.assumptions_severity = SOLID
    /\ ret.status = "ASSUMPTIONS_ACKNOWLEDGED"
    /\ ret.severity = WORTH_EXAMINING

\* C10: evaluate_scope and evaluate_gaps return a finding of the severity they
\* were given, with status SCOPE_UNBOUNDED / SCOPE_UNCLEAR / SCOPE_BOUNDED and
\* REASONING_GAPS_PRESENT / REASONING_GAPS_UNCLEAR / REASONING_CONNECTED for
\* ATTENTION_NEEDED / WORTH_EXAMINING / SOLID.
C10_ScopeGapsMirror ==
    /\ Ended("evaluate_scope") =>
          /\ exc = NoException
          /\ ret.severity = args.scope_severity
          /\ ret.status =
                CASE args.scope_severity = ATTENTION_NEEDED -> "SCOPE_UNBOUNDED"
                  [] args.scope_severity = WORTH_EXAMINING -> "SCOPE_UNCLEAR"
                  [] args.scope_severity = SOLID -> "SCOPE_BOUNDED"
    /\ Ended("evaluate_gaps") =>
          /\ exc = NoException
          /\ ret.severity = args.gaps_severity
          /\ ret.status =
                CASE args.gaps_severity = ATTENTION_NEEDED -> "REASONING_GAPS_PRESENT"
                  [] args.gaps_severity = WORTH_EXAMINING -> "REASONING_GAPS_UNCLEAR"
                  [] args.gaps_severity = SOLID -> "REASONING_CONNECTED"

\* A vague reasoning chain was reported as such.
C10_Witness ==
    /\ Returned("evaluate_gaps")
    /\ args.gaps_severity = WORTH_EXAMINING
    /\ ret.status = "REASONING_GAPS_UNCLEAR"
    /\ ret.severity = WORTH_EXAMINING

\* C11: the summary of every returned Evaluation is consistent: the three
\* counts are the numbers of the four findings with each severity and add up
\* to 4, and overall_status is NEEDS_WORK exactly when attention_count > 0,
\* COHERENT otherwise.
C11_SummaryConsistent ==
    Returned("evaluate_concept") =>
        LET summary == ret.summary
            with(level) == {key \in FindingKeys : ret[key].severity = level}
        IN  /\ summary.attention_count + summary.examine_count
                  + summary.solid_count = 4
            /\ summary.attention_count = Cardinality(with(ATTENTION_NEEDED))
            /\ summary.examine_count = Cardinality(with(WORTH_EXAMINING))
            /\ summary.solid_count = Cardinality(with(SOLID))
            /\ 0 <= summary.attention_count /\ summary.attention_count <= 4
            /\ summary.overall_status \in {"NEEDS_WORK", "COHERENT"}
            /\ (summary.overall_status = "NEEDS_WORK")
                  <=> (summary.attention_count > 0)

\* An Evaluation with findings of all three severities.
C11_Witness ==
    /\ Returned("evaluate_concept")
    /\ ret.summary.attention_count = 1
    /\ ret.summary.examine_count = 2
    /\ ret.summary.solid_count = 1
    /\ ret.summary.overall_status = "NEEDS_WORK"

\* C12: for each of the five dimensions and every confidence in [0.0, 1.0]
\* classify_confidence returns a value, and it is one of the three severities.
C12_ClassifyTotal ==
    ( /\ Ended("classify_confidence")
      /\ args.dimension \in DimensionSet
      /\ InUnitInterval(args.confidence) )
    => (exc = NoException /\ ret \in Severity)

\* The top of the range was classified for GAPS.
C12_Witness ==
    /\ Returned("classify_confidence")
    /\ args.dimension = "GAPS"
    /\ args.confidence = 100
    /\ ret = ATTENTION_NEEDED

\* The boundary literals of C13: <<dimension, confidence, severity>>.
BoundaryLiterals ==
    { <<"CLAIM", 80, WORTH_EXAMINING>>, <<"EVIDENCE", 80, WORTH_EXAMINING>>,
      <<"CLAIM", 81, SOLID>>, <<"EVIDENCE", 81, SOLID>>,
      <<"EVIDENCE", 50, ATTENTION_NEEDED>>, <<"EVIDENCE", 51, WORTH_EXAMINING>>,
      <<"GAPS", 15, SOLID>>, <<"GAPS", 35, WORTH_EXAMINING>>,
      <<"GAPS", 60, ATTENTION_NEEDED>> }

\* C13: classify_confidence returns the documented severity at each boundary
\* literal.
C13_BoundaryLiterals ==
    Ended("classify_confidence") =>
        \A literal \in BoundaryLiterals :
            (args.dimension = literal[1] /\ args.confidence = literal[2])
                => (exc = NoException /\ ret = literal[3])

\* CLAIM just above the SOLID threshold.
C13_Witness ==
    /\ Returned("classify_confidence")
    /\ args.dimension = "CLAIM"
    /\ args.confidence = 81
    /\ ret = SOLID

\* The input holds the five dimensions, the standard ones above 0.8 and GAPS
\* below 0.2.
AllStrong(stage1_output) ==
    /\ DOMAIN stage1_output = DimensionSet
    /\ \A dim \in StandardDimensions : stage1_output[dim] > 80
    /\ stage1_output["GAPS"] < 20

\* C15: an input with CLAIM, EVIDENCE, SCOPE, ASSUMPTIONS above 0.8 and GAPS
\* below 0.2 gets overall_status COHERENT and attention_count 0.
C15_AllStrongCoherent ==
    (Ended("evaluate_concept") /\ AllStrong(args.stage1_output))
    => /\ exc = NoException
       /\ ret.summary.overall_status = "COHERENT"
       /\ ret.summary.attention_count = 0

\* An all-strong input inside [0.0, 1.0] was found COHERENT.
C15_Witness ==
    /\ Returned("evaluate_concept")
    /\ AllStrong(args.stage1_output)
    /\ \A dim \in DimensionSet : InUnitInterval(args.stage1_output[dim])
    /\ ret.summary.overall_status = "COHERENT"

\* The input holds the five dimensions, each with a legacy binary value.
IsLegacyBinary(stage1_output) ==
    /\ DOMAIN stage1_output = DimensionSet
    /\ \A dim \in DimensionSet :
          stage1_output[dim] \in {legacy_binary(0), legacy_binary(1)}

\* The severity C16 gives a legacy binary value.
LegacySeverity(dimension, confidence) ==
    IF dimension = "GAPS"
    THEN IF confidence = legacy_binary(1) THEN ATTENTION_NEEDED ELSE SOLID
    ELSE IF confidence = legacy_binary(1) THEN SOLID ELSE ATTENTION_NEEDED

\* C16: for legacy binary inputs evaluate_concept classifies 1 as SOLID and 0
\* as ATTENTION_NEEDED for CLAIM, EVIDENCE, SCOPE, ASSUMPTIONS, 1 as
\* ATTENTION_NEEDED and 0 as SOLID for GAPS, and returns the findings of these
\* severities.
C16_LegacyBinary ==
    (Ended("evaluate_concept") /\ IsLegacyBinary(args.stage1_output)) =>
        LET expected == [dim \in DimensionSet |->
                            LegacySeverity(dim, args.stage1_output[dim])]
        IN  /\ exc = NoException
            /\ ret.severity_levels = expected
            /\ ret.claim_evidence =
                  evaluate_claim_evidence(expected["CLAIM"], expected["EVIDENCE"])
            /\ ret.scope = evaluate_scope(expected["SCOPE"])
            /\ ret.assumptions = evaluate_assumptions(expected["ASSUMPTIONS"])
            /\ ret.gaps = evaluate_gaps(expected["GAPS"])

\* The binary input 1, 0, 1, 0, 1 was evaluated.
C16_Witness ==
    /\ Returned("evaluate_concept")
    /\ args.stage1_output =
          [CLAIM |-> legacy_binary(1), EVIDENCE |-> legacy_binary(0),
           SCOPE |-> legacy_binary(1), ASSUMPTIONS |-> legacy_binary(0),
           GAPS |-> legacy_binary(1)]
    /\ ret.severity_levels["GAPS"] = ATTENTION_NEEDED
    /\ ret.claim_evidence.status = "CLAIM_WITHOUT_EVIDENCE"

-----------------------------------------------------------------------------
(* Concurrent callers of evaluate_concept *)

\* The threads that call evaluate_concept, and the calls they make in all.
NumCallers == 2
MaxCalls == 3

Callers == 1..NumCallers

\* The namespace of the module; the namespace of caller t's frame is t.
ModuleNamespace == 0

\* The arguments of the calls: the example of __main__, the first input of
\* test_full_evaluation, and a dict that lacks GAPS.
CallInputs ==
    { example_input,
      [CLAIM |-> 92, EVIDENCE |-> 28, SCOPE |-> 85, ASSUMPTIONS |-> 65, GAPS |-> 12],
      [CLAIM |-> 95, EVIDENCE |-> 60, SCOPE |-> 35, ASSUMPTIONS |-> 15] }

IdleFrame == [at |-> "idle", stage1_output |-> NoValue]

\* What a namespace holds for the name severity: nothing, or a value.
Unbound == [bound |-> FALSE, value |-> NoValue]
Bound(value) == [bound |-> TRUE, value |-> value]

\* Mutant of severity_scope: as if evaluate_concept declared `global severity`.
severity_scope_global(t) == ModuleNamespace

\* The namespace in which evaluate_concept binds and reads the name severity:
\* it is assigned in the function body, so it is a local of the call's frame.
severity_scope(t) == t

\* Lines 362-396 of a call, from the severity map the name severity is bound
\* to: the subscripts raise KeyError, or the evaluation is built and returned.
evaluate_concept_body(severity, stage1_output) ==
    IF \E i \in 1..Len(Dimensions) : Dimensions[i] \notin DOMAIN severity
    THEN [exc |-> KeyError, ret |-> NoValue]
    ELSE [exc |-> NoException, ret |-> build_evaluation(severity, stage1_output)]

InitCalls ==
    /\ SingleCallUnused
    /\ WebUnused
    /\ RaceUnused
    /\ AuthUnused
    /\ frames = [t \in Callers |-> IdleFrame]
    /\ cells = [n \in Callers \cup {ModuleNamespace} |-> Unbound]
    /\ observed = <<>>
    /\ started = 0

\* Caller t calls evaluate_concept(stage1_output): a frame is created with
\* the parameter bound.
Call(t, stage1_output) ==
    /\ frames[t].at = "idle"
    /\ started < MaxCalls
    /\ started' = started + 1
    /\ frames' = [frames EXCEPT ![t] = [at |-> "severity",
                                        stage1_output |-> stage1_output]]
    /\ UNCHANGED <<cells, observed>>
    /\ UNCHANGED <<pc, fn, args, ret, exc, webVars, raceVars, authVars>>

\* Line 360: severity = get_severity_map(stage1_output).
Step_severity(t) ==
    /\ frames[t].at = "severity"
    /\ cells' = [cells EXCEPT ![severity_scope(t)] =
                    Bound(get_severity_map(frames[t].stage1_output))]
    /\ frames' = [frames EXCEPT ![t].at = "evaluation"]
    /\ UNCHANGED <<observed, started>>
    /\ UNCHANGED <<pc, fn, args, ret, exc, webVars, raceVars, authVars>>

\* Lines 362-396: the call ends, with KeyError or with the evaluation; its
\* frame is discarded.  The call is recorded with the number of other calls
\* that are in progress when it ends.
Step_evaluation(t) ==
    /\ frames[t].at = "evaluation"
    /\ observed' = Append(observed,
            [input |-> frames[t].stage1_output,
             outcome |-> evaluate_concept_body(cells[severity_scope(t)].value,
                                               frames[t].stage1_output),
             others |-> Cardinality({u \in Callers \ {t} :
                                        frames[u].at # "idle"})])
    /\ frames' = [frames EXCEPT ![t] = IdleFrame]
    /\ cells' = [cells EXCEPT ![t] = Unbound]
    /\ UNCHANGED started
    /\ UNCHANGED <<pc, fn, args, ret, exc, webVars, raceVars, authVars>>

NextCalls ==
    \/ \E t \in Callers : \E stage1_output \in CallInputs : Call(t, stage1_output)
    \/ \E t \in Callers : Step_severity(t)
    \/ \E t \in Callers : Step_evaluation(t)

SpecCalls == InitCalls /\ [][NextCalls]_vars

\* C14: evaluate_concept is deterministic and has no hidden state: two calls
\* with the same input return the same outcome, whatever calls were made
\* between them.
C14_Deterministic ==
    \A i, j \in 1..Len(observed) :
        observed[i].input = observed[j].input
            => observed[i].outcome = observed[j].outcome

\* Two calls on the example input have returned, with a call on another
\* input between them.
C14_Witness ==
    /\ Len(observed) = 3
    /\ observed[1].input = example_input
    /\ observed[2].input # example_input
    /\ observed[3].input = example_input
    /\ observed[1].outcome.exc = NoException
    /\ observed[3].outcome = observed[1].outcome

\* C17: the core has no shared mutable state: under any interleaving each
\* call ends as the same call run alone does (evaluate_concept of its input),
\* its input is returned unchanged, and nothing is bound in the module's
\* namespace.
C17_NoSharedState ==
    /\ ~cells[ModuleNamespace].bound
    /\ \A i \in 1..Len(observed) :
          /\ observed[i].outcome = evaluate_concept(observed[i].input)
          /\ observed[i].outcome.exc = NoException
                => observed[i].outcome.ret.confidence_scores = observed[i].input

\* A call has returned its evaluation while another call, on a different
\* input, was past line 360.
C17_Witness ==
    /\ Len(observed) >= 1
    /\ observed[Len(observed)].others > 0
    /\ observed[Len(observed)].outcome.exc = NoException
    /\ \E u \in Callers :
          /\ frames[u].at = "evaluation"
          /\ frames[u].stage1_output # observed[Len(observed)].input

-----------------------------------------------------------------------------
(* The backend: one request to /analyse, /analyse/stream or /analyse/direct *)

MAX_ANALYSES_PER_USER == 10
MAX_RETRIES == 3
RETRY_DELAY == 2

\* The text chunks one stream of the language-model API delivers at most.
MaxChunks == 2

Endpoints == {"/analyse", "/analyse/stream", "/analyse/direct"}

\* The users table holds one row; its password is UserPassword.  A request
\* carries that password, another one, or none ("" stands for None and "").
UserPassword == "kd-user"
Passwords == {UserPassword, "kd-other", ""}

\* usage_count of the row when the request arrives.
UsageCounts ==
    {0, MAX_ANALYSES_PER_USER - 1, MAX_ANALYSES_PER_USER,
     MAX_ANALYSES_PER_USER + 1}

\* What run_stage1 returns: a confidence for each dimension of
\* DIMENSION_ORDER, the sigmoid of a logit (0.0 and 1.0 when it saturates).
Stage1Outputs ==
    { example_input,
      [CLAIM |-> 95, EVIDENCE |-> 90, SCOPE |-> 88, ASSUMPTIONS |-> 85, GAPS |-> 10],
      [CLAIM |-> 100, EVIDENCE |-> 0, SCOPE |-> 50, ASSUMPTIONS |-> 80, GAPS |-> 20] }

\* No exception.
NoError == [class |-> "none", status_code |-> 0, mentions_overloaded |-> FALSE]

\* The exceptions client.chat.completions.create and the iteration of its
\* stream raise: their class, the status_code of an APIStatusError, and
\* whether "overloaded" occurs in str(e).lower().
Exceptions ==
    [class : {"APIStatusError"}, status_code : {529, 500},
     mentions_overloaded : BOOLEAN]
    \cup [class : {"APIConnectionError"}, status_code : {0},
          mentions_overloaded : BOOLEAN]

\* isinstance(e, cls) for the classes the except clauses name.
IsInstance(e, cls) == cls = "Exception" \/ e.class = cls

\* Mutant of Caught: the clause `except Exception` is left out.
Caught_status_only(e) == IsInstance(e, "APIStatusError")

\* The try statements of the three diagnosis functions catch e: they have the
\* clauses `except openai.APIStatusError` and `except Exception`.
Caught(e) == IsInstance(e, "APIStatusError") \/ IsInstance(e, "Exception")

\* Mutant of IsOverloaded: every APIStatusError is retried.
IsOverloaded_any(e) == TRUE

\* e.status_code == 529 or "overloaded" in str(e).lower()
IsOverloaded(e) == e.status_code = 529 \/ e.mentions_overloaded

\* Mutant of sleep_delay: the same delay before every retry.
sleep_delay_fixed(attempt_) == RETRY_DELAY

\* The argument of asyncio.sleep: RETRY_DELAY * (attempt + 1).
sleep_delay(attempt_) == RETRY_DELAY * (attempt_ + 1)

\* The strings the diagnosis functions return, with the exception an error
\* string is formatted from.
Str(text, e) == [type |-> "str", text |-> text, error |-> e]

None == [type |-> "NoneType", text |-> "", error |-> NoError]

Content == Str("response.choices[0].message.content", NoError)

ErrorString(e) == Str("[Error: str(e)]", e)

MaxRetriesExceeded == Str("[Error: Max retries exceeded]", NoError)

Unavailable(endpoint) ==
    IF endpoint = "/analyse/direct"
    THEN Str("[Direct AI unavailable - API key not configured]", NoError)
    ELSE Str("[Diagnosis unavailable - API key not configured]", NoError)

\* Mutant of EventOf: stream_diagnosis closes every stream with [DONE].
EventOf_done(result) == "[DONE]"

\* The server-sent event stream_diagnosis yields for a result.
EventOf(result) ==
    IF result = Content THEN "[DONE]"
    ELSE IF result.error # NoError THEN "error"
    ELSE "unavailable"

\* Mutant of verify_user: the limit counts as reached only below zero.
verify_user_below_zero(password) ==
    IF password = "" \/ password # UserPassword
    THEN [found |-> FALSE, usage_count |-> 0, remaining_analyses |-> 0,
          limit_reached |-> FALSE]
    ELSE [found |-> TRUE, usage_count |-> usage_count,
          remaining_analyses |-> MAX_ANALYSES_PER_USER - usage_count,
          limit_reached |-> MAX_ANALYSES_PER_USER - usage_count < 0]

\* verify_user: None for no password or an unknown one, else the user's row
\* with remaining_analyses and limit_reached.
verify_user(password) ==
    IF password = "" \/ password # UserPassword
    THEN [found |-> FALSE, usage_count |-> 0, remaining_analyses |-> 0,
          limit_reached |-> FALSE]
    ELSE [found |-> TRUE, usage_count |-> usage_count,
          remaining_analyses |-> MAX_ANALYSES_PER_USER - usage_count,
          limit_reached |-> MAX_ANALYSES_PER_USER - usage_count <= 0]

\* format_score: round(confidence, 3) leaves the confidences of the model,
\* multiples of 0.01, as they are; of display only the suffix is kept.
format_score(dimension, confidence, severity) ==
    [dimension |-> dimension, confidence |-> confidence, severity |-> severity,
     display |-> IF severity = ATTENTION_NEEDED THEN "<- Needs attention" ELSE ""]

\* [format_score(dim, confidence_scores[dim], severity_levels[dim])
\*  for dim in DIMENSION_ORDER]
format_scores(confidence_scores, evaluation) ==
    [i \in 1..Len(Dimensions) |->
        format_score(Dimensions[i], confidence_scores[Dimensions[i]],
                     evaluation.severity_levels[Dimensions[i]])]

\* A name that is not assigned yet holds Nothing, an assigned one Some(value).
Nothing == <<>>
Some(value) == <<value>>
The(option) == option[1]

NoLocals ==
    [user |-> Nothing, confidence_scores |-> Nothing, evaluation |-> Nothing,
     scores |-> Nothing, remaining |-> Nothing, initial_data |-> Nothing]

\* A response: its status code, and the body of a 200.
HTTPResponse(status_code) == [status_code |-> status_code, body |-> Nothing]

NoResponse == HTTPResponse(0)

InitWeb ==
    /\ SingleCallUnused
    /\ CallsUnused
    /\ RaceUnused
    /\ AuthUnused
    /\ request \in [endpoint : Endpoints, password : Passwords,
                    include_diagnosis : BOOLEAN]
    /\ client \in BOOLEAN
    /\ usage_count \in UsageCounts
    /\ hpc = "verify"
    /\ locals = NoLocals
    /\ attempt = 0
    /\ outcomes = <<>>
    /\ chunks = 0
    /\ sleeps = <<>>
    /\ diagnosis = None
    /\ events = <<>>
    /\ response = NoResponse

IsStream == request.endpoint = "/analyse/stream"

Event(name) == [event |-> name, attempt |-> attempt]

\* A diagnosis function ends with result: get_full_diagnosis returns it to
\* analyse_concept, get_direct_ai_response returns it to analyse_direct, which
\* answers at once, and stream_diagnosis yields its event and ends.
End(result) ==
    CASE request.endpoint = "/analyse" ->
            /\ diagnosis' = result
            /\ hpc' = "increment"
            /\ UNCHANGED <<events, response>>
      [] request.endpoint = "/analyse/direct" ->
            /\ diagnosis' = result
            /\ hpc' = "done"
            /\ response' =
                  [status_code |-> 200,
                   body |-> Some([response |-> result,
                                  remaining_analyses |->
                                      The(locals.user).remaining_analyses])]
            /\ UNCHANGED events
      [] OTHER ->
            /\ events' = Append(events, Event(EventOf(result)))
            /\ hpc' = "done"
            /\ UNCHANGED <<diagnosis, response>>

\* An exception leaves the diagnosis function: the endpoint answers 500, and
\* a stream that has begun breaks off.
Propagate ==
    IF IsStream
    THEN /\ hpc' = "aborted"
         /\ UNCHANGED <<diagnosis, events, response>>
    ELSE /\ hpc' = "done"
         /\ response' = HTTPResponse(500)
         /\ UNCHANGED <<diagnosis, events>>

\* verify_password and the check of its result: 401 for no user, 403 when
\* the limit is reached.
VerifyPassword ==
    /\ hpc = "verify"
    /\ LET user == verify_user(request.password)
       IN  IF ~user.found
           THEN /\ response' = HTTPResponse(401)
                /\ hpc' = "done"
                /\ UNCHANGED locals
           ELSE IF user.limit_reached
           THEN /\ response' = HTTPResponse(403)
                /\ hpc' = "done"
                /\ UNCHANGED locals
           ELSE /\ locals' = [locals EXCEPT !.user = Some(user)]
                /\ hpc' = IF request.endpoint = "/analyse/direct"
                          THEN "diagnosis" ELSE "stages"
                /\ UNCHANGED response
    /\ UNCHANGED <<request, client, usage_count, attempt, outcomes, chunks,
                   sleeps, diagnosis, events>>
    /\ UNCHANGED <<pc, fn, args, ret, exc, callVars, raceVars, authVars>>

\* Stage 1, Stage 2 and the formatting of the scores; in /analyse without
\* include_diagnosis the diagnosis stays None.
RunStages(confidence_scores) ==
    /\ hpc = "stages"
    /\ LET outcome == evaluate_concept(confidence_scores)
       IN  IF outcome.exc # NoException
           THEN /\ response' = HTTPResponse(500)
                /\ hpc' = "done"
                /\ UNCHANGED locals
           ELSE /\ locals' = [locals EXCEPT
                                !.confidence_scores = Some(confidence_scores),
                                !.evaluation = Some(outcome.ret),
                                !.scores = Some(format_scores(confidence_scores,
                                                              outcome.ret))]
                /\ hpc' = IF request.endpoint = "/analyse"
                             /\ request.include_diagnosis
                          THEN "diagnosis" ELSE "increment"
                /\ UNCHANGED response
    /\ UNCHANGED <<request, client, usage_count, attempt, outcomes, chunks,
                   sleeps, diagnosis, events>>
    /\ UNCHANGED <<pc, fn, args, ret, exc, callVars, raceVars, authVars>>

\* increment_usage, and what follows it: /analyse returns its response,
\* /analyse/stream returns the StreamingResponse of generate().
IncrementUsage ==
    /\ hpc = "increment"
    /\ usage_count' = usage_count + 1
    /\ LET remaining == MAX_ANALYSES_PER_USER - usage_count'
       IN  IF IsStream
           THEN /\ locals' = [locals EXCEPT
                                !.remaining = Some(remaining),
                                !.initial_data =
                                    Some([scores |-> The(locals.scores),
                                          evaluation |-> The(locals.evaluation),
                                          remaining_analyses |-> remaining])]
                /\ response' = [status_code |-> 200,
                                body |-> Some([media_type |-> "text/event-stream"])]
                /\ hpc' = "generate"
           ELSE /\ locals' = [locals EXCEPT !.remaining = Some(remaining)]
                /\ response' = [status_code |-> 200,
                                body |-> Some([scores |-> The(locals.scores),
                                               evaluation |-> The(locals.evaluation),
                                               diagnosis |-> diagnosis,
                                               remaining_analyses |-> remaining])]
                /\ hpc' = "done"
    /\ UNCHANGED <<request, client, attempt, outcomes, chunks, sleeps,
                   diagnosis, events>>
    /\ UNCHANGED <<pc, fn, args, ret, exc, callVars, raceVars, authVars>>

\* generate() sends the scores event, which carries initial_data, then runs
\* stream_diagnosis.
Generate ==
    /\ hpc = "generate"
    /\ events' = Append(events, [event |-> "scores", attempt |-> 0 - 1])
    /\ hpc' = "diagnosis"
    /\ UNCHANGED <<request, client, usage_count, locals, attempt, outcomes,
                   chunks, sleeps, diagnosis, response>>
    /\ UNCHANGED <<pc, fn, args, ret, exc, callVars, raceVars, authVars>>

\* The diagnosis function is entered: without a client it ends at once, else
\* its loop starts with attempt 0.
EnterDiagnosis ==
    /\ hpc = "diagnosis"
    /\ IF ~client
       THEN /\ End(Unavailable(request.endpoint))
            /\ UNCHANGED attempt
       ELSE /\ attempt' = 0
            /\ hpc' = "attempt"
            /\ UNCHANGED <<diagnosis, events, response>>
    /\ UNCHANGED <<request, client, usage_count, locals, outcomes, chunks, sleeps>>
    /\ UNCHANGED <<pc, fn, args, ret, exc, callVars, raceVars, authVars>>

\* client.chat.completions.create returns a response (not streaming).
CreateReturns ==
    /\ hpc = "attempt"
    /\ ~IsStream
    /\ outcomes' = Append(outcomes, [result |-> "returned", exception |-> NoError])
    /\ End(Content)
    /\ UNCHANGED <<request, client, usage_count, locals, attempt, chunks, sleeps>>
    /\ UNCHANGED <<pc, fn, args, ret, exc, callVars, raceVars, authVars>>

\* client.chat.completions.create(stream=True) returns a stream.
StreamOpens ==
    /\ hpc = "attempt"
    /\ IsStream
    /\ outcomes' = Append(outcomes, [result |-> "open", exception |-> NoError])
    /\ chunks' = 0
    /\ hpc' = "streaming"
    /\ UNCHANGED <<request, client, usage_count, locals, attempt, sleeps,
                   diagnosis, events, response>>
    /\ UNCHANGED <<pc, fn, args, ret, exc, callVars, raceVars, authVars>>

\* The stream delivers a chunk with content: a text event is yielded.
StreamChunk ==
    /\ hpc = "streaming"
    /\ chunks < MaxChunks
    /\ chunks' = chunks + 1
    /\ events' = Append(events, Event("text"))
    /\ UNCHANGED <<request, client, usage_count, hpc, locals, attempt,
                   outcomes, sleeps, diagnosis, response>>
    /\ UNCHANGED <<pc, fn, args, ret, exc, callVars, raceVars, authVars>>

\* The stream is exhausted: [DONE] is yielded and stream_diagnosis returns.
StreamEnds ==
    /\ hpc = "streaming"
    /\ outcomes' = [outcomes EXCEPT ![Len(outcomes)].result = "returned"]
    /\ End(Content)
    /\ UNCHANGED <<request, client, usage_count, locals, attempt, chunks, sleeps>>
    /\ UNCHANGED <<pc, fn, args, ret, exc, callVars, raceVars, authVars>>

\* create, or the iteration of its stream, raises e.  An overloaded
\* APIStatusError before the last attempt is followed by a sleep (and, in the
\* stream, an info event); any other exception that is caught ends the
\* function with an error.
ApiRaises(e) ==
    /\ hpc \in {"attempt", "streaming"}
    /\ outcomes' =
          IF hpc = "attempt"
          THEN Append(outcomes, [result |-> "raised", exception |-> e])
          ELSE [outcomes EXCEPT
                  ![Len(outcomes)] = [result |-> "raised", exception |-> e]]
    /\ IF ~Caught(e)
       THEN /\ Propagate
            /\ UNCHANGED sleeps
       ELSE IF /\ IsInstance(e, "APIStatusError")
               /\ IsOverloaded(e)
               /\ attempt < MAX_RETRIES - 1
       THEN /\ sleeps' = Append(sleeps, sleep_delay(attempt))
            /\ events' = IF IsStream
                         THEN Append(events, Event("info"))
                         ELSE events
            /\ hpc' = "sleep"
            /\ UNCHANGED <<diagnosis, response>>
       ELSE /\ End(ErrorString(e))
            /\ UNCHANGED sleeps
    /\ UNCHANGED <<request, client, usage_count, locals, attempt, chunks>>
    /\ UNCHANGED <<pc, fn, args, ret, exc, callVars, raceVars, authVars>>

\* asyncio.sleep ends and `continue` takes the next attempt of the loop; a
\* loop that is exhausted falls through to the statement after it.
WakeUp ==
    /\ hpc = "sleep"
    /\ attempt' = attempt + 1
    /\ IF attempt + 1 < MAX_RETRIES
       THEN /\ hpc' = "attempt"
            /\ UNCHANGED <<diagnosis, events, response>>
       ELSE IF IsStream
       THEN /\ hpc' = "done"
            /\ UNCHANGED <<diagnosis, events, response>>
       ELSE End(MaxRetriesExceeded)
    /\ UNCHANGED <<request, client, usage_count, locals, outcomes, chunks, sleeps>>
    /\ UNCHANGED <<pc, fn, args, ret, exc, callVars, raceVars, authVars>>

NextWeb ==
    \/ VerifyPassword
    \/ \E confidence_scores \in Stage1Outputs : RunStages(confidence_scores)
    \/ IncrementUsage
    \/ Generate
    \/ EnterDiagnosis
    \/ CreateReturns
    \/ StreamOpens
    \/ StreamChunk
    \/ StreamEnds
    \/ \E e \in Exceptions : ApiRaises(e)
    \/ WakeUp

SpecWeb == InitWeb /\ [][NextWeb]_vars

\* The event loop runs the request's coroutine whenever it can take a step:
\* a call of the API returns or raises, and a sleep ends.
SpecWebFair == SpecWeb /\ WF_vars(NextWeb)

\* The request has ended.
Finished == hpc \in {"done", "aborted"}

\* The request's diagnosis function has ended.
DiagnosisEnded == Finished \/ hpc = "increment"

\* An overload error: an APIStatusError with status 529 or with "overloaded"
\* in its message.
OverloadError(e) ==
    e.class = "APIStatusError" /\ (e.status_code = 529 \/ e.mentions_overloaded)

LastOutcome == outcomes[Len(outcomes)]

\* The error result of the request's diagnosis function for exception e: the
\* string returned, or the error event that ends the stream.
EndedInError(e) ==
    IF IsStream
    THEN /\ hpc = "done"
         /\ events[Len(events)].event = "error"
    ELSE diagnosis = ErrorString(e)

\* C18: a diagnosis request calls the API at most MAX_RETRIES times; every
\* attempt that is followed by another one ended in an overload error; and a
\* request whose last attempt raised (any other exception, or an overload
\* error on the last attempt) ends with an error result, not in a retry.
C18_BoundedRetries ==
    /\ Len(outcomes) <= MAX_RETRIES
    /\ \A i \in 1..(Len(outcomes) - 1) :
          /\ outcomes[i].result = "raised"
          /\ OverloadError(outcomes[i].exception)
    /\ (outcomes # <<>> /\ LastOutcome.result = "raised")
          => IF OverloadError(LastOutcome.exception)
                /\ Len(outcomes) < MAX_RETRIES
             THEN hpc \in {"sleep", "attempt"}
             ELSE DiagnosisEnded /\ EndedInError(LastOutcome.exception)

\* The third attempt raised an overload error and the request ended with
\* the error result.
C18_Witness ==
    /\ Len(outcomes) = MAX_RETRIES
    /\ LastOutcome.result = "raised"
    /\ OverloadError(LastOutcome.exception)
    /\ Finished
    /\ EndedInError(LastOutcome.exception)

RECURSIVE Pow2(_)
Pow2(n) == IF n = 0 THEN 1 ELSE 2 * Pow2(n - 1)

\* C19: the wait before the k-th retry is RETRY_DELAY * 2^(k-1): 2 s before
\* the second attempt, 4 s before the third.
C19_ExponentialBackoff ==
    /\ Len(sleeps) <= MAX_RETRIES - 1
    /\ \A k \in 1..Len(sleeps) : sleeps[k] = RETRY_DELAY * Pow2(k - 1)

\* Both retries have been waited for.
C19_Witness ==
    /\ sleeps = <<2, 4>>
    /\ Len(outcomes) = MAX_RETRIES

\* /analyse has run Stage 1 and Stage 2 and is about to ask for a diagnosis.
DiagnosisStepBegins == request.endpoint = "/analyse" /\ hpc = "diagnosis"

\* /analyse has answered 200 with the scores, the evaluation of the Stage 1
\* output and a diagnosis string, the error string when the last attempt
\* raised.
AnalyseAnswered ==
    /\ request.endpoint = "/analyse"
    /\ hpc = "done"
    /\ response.status_code = 200
    /\ The(response.body).evaluation =
          evaluate_concept(The(locals.confidence_scores)).ret
    /\ The(response.body).scores =
          format_scores(The(locals.confidence_scores),
                        The(response.body).evaluation)
    /\ The(response.body).diagnosis.type = "str"
    /\ (outcomes # <<>> /\ LastOutcome.result = "raised")
          => The(response.body).diagnosis = ErrorString(LastOutcome.exception)

\* C20: in /analyse, once the scores and the Evaluation exist, the diagnosis
\* step ends for every sequence of API outcomes, no exception leaves it, and
\* the response carries the scores, the unchanged Evaluation and a string.
C20_DiagnosisNeverSuppresses == DiagnosisStepBegins ~> AnalyseAnswered

\* Every attempt of the diagnosis failed, the last with an exception that is
\* not an APIStatusError, and /analyse answered with the evaluation.
C20_Witness ==
    /\ AnalyseAnswered
    /\ Len(outcomes) = MAX_RETRIES
    /\ LastOutcome.result = "raised"
    /\ LastOutcome.exception.class = "APIConnectionError"
    /\ The(response.body).evaluation.summary.overall_status = "NEEDS_WORK"

\* The positions of the events of the stream with one of the given names.
EventsNamed(names) == {i \in 1..Len(events) : events[i].event \in names}

\* C21: in the stream of /analyse/stream the scores event, which carries the
\* scores, the Evaluation and remaining_analyses, is the first event and the
\* only one of its kind; [DONE] and the error event occur at most once
\* between them, as the last event of a stream that has ended; and [DONE]
\* follows an attempt whose stream ended without an exception.
C21_StreamOrdered ==
    /\ events # <<>> =>
          /\ IsStream
          /\ EventsNamed({"scores"}) = {1}
          /\ The(locals.initial_data) =
                [scores |-> format_scores(The(locals.confidence_scores),
                                          The(locals.evaluation)),
                 evaluation |-> evaluate_concept(The(locals.confidence_scores)).ret,
                 remaining_analyses |-> MAX_ANALYSES_PER_USER - usage_count]
    /\ Cardinality(EventsNamed({"[DONE]", "error"})) <= 1
    /\ \A i \in EventsNamed({"[DONE]", "error"}) :
          /\ i = Len(events)
          /\ hpc = "done"
    /\ \A i \in EventsNamed({"[DONE]"}) :
          /\ outcomes # <<>>
          /\ LastOutcome.result = "returned"
    /\ \A i \in EventsNamed({"error"}) :
          /\ outcomes # <<>>
          /\ LastOutcome.result = "raised"

\* A stream that was retried once has ended with [DONE] after its text.
C21_Witness ==
    /\ hpc = "done"
    /\ Len(outcomes) = 2
    /\ Len(events) >= 3
    /\ events[1].event = "scores"
    /\ events[Len(events)].event = "[DONE]"
    /\ events[Len(events) - 1].event = "text"
    /\ EventsNamed({"info"}) # {}

\* The request is refused with status_code: it ends at once, nothing of the
\* pipeline has run and no state has changed.
RefusedWith(status_code) ==
    /\ response' = HTTPResponse(status_code)
    /\ hpc' = "done"
    /\ usage_count' = usage_count
    /\ locals' = NoLocals
    /\ outcomes' = <<>>
    /\ events' = <<>>

\* C22: on each of the three endpoints a request of a user whose usage_count
\* has reached MAX_ANALYSES_PER_USER is refused with 403 before Stage 1,
\* Stage 2 or any call of the language model, and usage_count stays as it is;
\* a request with an unknown or empty password is refused with 401, likewise;
\* and a refused request does nothing afterwards.
C22_LimitRefused ==
    [][ /\ (hpc = "verify" /\ request.password = UserPassword
               /\ usage_count >= MAX_ANALYSES_PER_USER)
            => RefusedWith(403)
        /\ (hpc = "verify" /\ request.password # UserPassword)
            => RefusedWith(401)
        /\ hpc = "done" => UNCHANGED vars ]_vars

\* A request of a user at the limit has been answered 403.
C22_Witness ==
    /\ hpc = "done"
    /\ request.password = UserPassword
    /\ usage_count = MAX_ANALYSES_PER_USER
    /\ response = HTTPResponse(403)
    /\ outcomes = <<>>

\* C28: the text events of one stream all come from the same attempt: after
\* an overload error has interrupted an attempt that had yielded text, no
\* text of a later attempt follows.
C28_TextOfOneAttempt ==
    \A i, j \in EventsNamed({"text"}) : events[i].attempt = events[j].attempt

\* A valid input of evaluate_concept: the five dimensions, each with a
\* confidence in [0.0, 1.0].
ValidInput(stage1_output) ==
    /\ DOMAIN stage1_output = DimensionSet
    /\ \A dim \in DimensionSet : InUnitInterval(stage1_output[dim])

\* C25: for every valid input, if one of the five entries of severity_levels
\* is ATTENTION_NEEDED then overall_status is NEEDS_WORK.
C25_AttentionNeverHidden ==
    ( /\ Returned("evaluate_concept")
      /\ ValidInput(args.stage1_output)
      /\ \E dim \in DimensionSet : ret.severity_levels[dim] = ATTENTION_NEEDED )
    => ret.summary.overall_status = "NEEDS_WORK"

\* The valid inputs that differ from better in one dimension only, where
\* their confidence is lower (higher for GAPS).
OneStepWorse(better) ==
    { [better EXCEPT ![dim] = confidence] :
        <<dim, confidence>> \in
            { dc \in DimensionSet \X (StandardSamples \cup GapsSamples) :
                /\ InUnitInterval(dc[2])
                /\ IF dc[1] = "GAPS" THEN dc[2] > better[dc[1]]
                                     ELSE dc[2] < better[dc[1]] } }

\* C26: of two valid inputs of which one is worse in one dimension, the worse
\* one has no smaller attention_count, and is not COHERENT when the better
\* one is NEEDS_WORK.
C26_VerdictMonotone ==
    ( /\ Returned("evaluate_concept")
      /\ ValidInput(args.stage1_output) )
    => \A worse \in OneStepWorse(args.stage1_output) :
          LET summary == evaluate_concept(worse).ret.summary
          IN  /\ summary.attention_count >= ret.summary.attention_count
              /\ ret.summary.overall_status = "NEEDS_WORK"
                    => summary.overall_status = "NEEDS_WORK"

-----------------------------------------------------------------------------
(* The backend: concurrent requests of one user *)

\* The requests to /analyse and /analyse/stream that are in flight at once,
\* all with the password of the same user.
NumRequests == 2

Requests == 1..NumRequests

RaceEndpoints == {"/analyse", "/analyse/stream"}

\* The variables of the single request of SpecWeb, which SpecRace leaves
\* alone.
requestVars ==
    <<request, hpc, locals, attempt, outcomes, chunks, sleeps, diagnosis,
      events, response>>

RequestUnused ==
    /\ request = <<>>
    /\ hpc = "unused"
    /\ locals = <<>>
    /\ attempt = 0
    /\ outcomes = <<>>
    /\ chunks = 0
    /\ sleeps = <<>>
    /\ diagnosis = <<>>
    /\ events = <<>>
    /\ response = <<>>

\* The requests arrive while the user's usage_count is within the limit.
InitRace ==
    /\ SingleCallUnused
    /\ CallsUnused
    /\ AuthUnused
    /\ RequestUnused
    /\ client \in BOOLEAN
    /\ usage_count \in {count \in UsageCounts : count <= MAX_ANALYSES_PER_USER}
    /\ reqs \in [Requests ->
                    [endpoint : RaceEndpoints, include_diagnosis : BOOLEAN,
                     at : {"arrive"}, attempt : {0}, status_code : {0},
                     remaining_analyses : {0}]]

\* increment_usage and the response with remaining_analyses.
Respond(r) ==
    /\ usage_count' = usage_count + 1
    /\ reqs' = [reqs EXCEPT
                  ![r].at = "done",
                  ![r].status_code = 200,
                  ![r].remaining_analyses = MAX_ANALYSES_PER_USER - usage_count']

\* One attempt of get_full_diagnosis, which ends without an exception
\* (NoError) or with e: an overload error before the last attempt suspends
\* the request in asyncio.sleep, anything else lets analyse_concept go on to
\* increment_usage.
AttemptOf(r, attempt_, e) ==
    IF /\ e # NoError
       /\ IsInstance(e, "APIStatusError")
       /\ IsOverloaded(e)
       /\ attempt_ < MAX_RETRIES - 1
    THEN /\ reqs' = [reqs EXCEPT ![r].at = "sleep", ![r].attempt = attempt_]
         /\ UNCHANGED usage_count
    ELSE Respond(r)

\* The event loop runs request r from its arrival to its first suspension:
\* verify_password, Stage 1, Stage 2, and then increment_usage
\* (/analyse/stream, and /analyse without a diagnosis) or the first attempt
\* of get_full_diagnosis.
Arrive(r, e) ==
    /\ reqs[r].at = "arrive"
    /\ IF verify_user(UserPassword).limit_reached
       THEN /\ reqs' = [reqs EXCEPT ![r].at = "done", ![r].status_code = 403]
            /\ UNCHANGED usage_count
       ELSE IF reqs[r].endpoint = "/analyse"
               /\ reqs[r].include_diagnosis /\ client
       THEN AttemptOf(r, 0, e)
       ELSE Respond(r)
    /\ UNCHANGED <<client, requestVars>>
    /\ UNCHANGED <<pc, fn, args, ret, exc, callVars, authVars>>

\* asyncio.sleep ends for request r and the next attempt runs.
Resume(r, e) ==
    /\ reqs[r].at = "sleep"
    /\ AttemptOf(r, reqs[r].attempt + 1, e)
    /\ UNCHANGED <<client, requestVars>>
    /\ UNCHANGED <<pc, fn, args, ret, exc, callVars, authVars>>

NextRace ==
    \/ \E r \in Requests : \E e \in Exceptions \cup {NoError} : Arrive(r, e)
    \/ \E r \in Requests : \E e \in Exceptions \cup {NoError} : Resume(r, e)

SpecRace == InitRace /\ [][NextRace]_vars

\* C27: under every interleaving of concurrent requests of one user
\* usage_count never exceeds MAX_ANALYSES_PER_USER and no response carries a
\* negative remaining_analyses.
C27_LimitHolds ==
    /\ usage_count <= MAX_ANALYSES_PER_USER
    /\ \A r \in Requests :
          (reqs[r].at = "done" /\ reqs[r].status_code = 200)
              => reqs[r].remaining_analyses >= 0

-----------------------------------------------------------------------------
(* Registration, verification and sessions *)

MAX_NEW_USERS_PER_DAY == 10

\* timedelta(hours=1): the life of a verification token, in hours.
TOKEN_HOURS == 1

HOURS_PER_DAY == 24

\* The clock when the model starts, the last hour of a day, and the hour at
\* which it stops.
FirstHour == HOURS_PER_DAY - 1
MaxHour == 25

\* The emails that register, and the calls that register or create a user.
NumEmails == 2
MaxRegistrations == 2

Emails == 1..NumEmails

\* NULL in a column of the users table; tokens and hours are positive.
NULL == 0

\* date.today() of the clock.
DateOf(hour) == hour \div HOURS_PER_DAY

today == DateOf(now)

\* The keys of rows of other users, created earlier on the first day.
OtherKey(i) == NumEmails + i

\* secrets.token_urlsafe(32): a token no earlier call has generated.
NewToken == Len(issued) + 1

\* generate_password(), repeated until no row has the password.
NewPassword == NumEmails + MAX_NEW_USERS_PER_DAY + Len(issued) + 1

\* A row of users as register_user and create_user insert it.
NewRow(token, expires) ==
    [verified |-> FALSE, verification_token |-> token,
     token_expires_at |-> expires, created_at |-> now, usage_count |-> 0]

\* Rows that exist when the model starts: verified users with some usage.
EarlierRow ==
    [verified |-> TRUE, verification_token |-> NULL,
     token_expires_at |-> NULL, created_at |-> FirstHour, usage_count |-> 3]

\* row[0] if row else 0, for the row of daily_stats of a date.
users_created(date) ==
    IF date \in DOMAIN daily_stats THEN daily_stats[date] ELSE 0

\* INSERT INTO daily_stats ... ON CONFLICT(date) DO UPDATE
\* SET users_created = users_created + 1
CountUser(date) ==
    [d \in DOMAIN daily_stats \cup {date} |->
        IF d = date THEN users_created(date) + 1 ELSE daily_stats[d]]

\* INSERT INTO users
Insert(key, row) ==
    [k \in DOMAIN users \cup {key} |-> IF k = key THEN row ELSE users[k]]

\* Mutant of CapReached: the cap is compared with >.
CapReached_above(users_today) == users_today > MAX_NEW_USERS_PER_DAY

\* if users_today >= MAX_NEW_USERS_PER_DAY
CapReached(users_today) == users_today >= MAX_NEW_USERS_PER_DAY

\* Mutant of Expired: a stored token is accepted whatever the clock says.
Expired_never(expires) == FALSE

\* if expires_at: ... if datetime.now() > expires
Expired(expires) == expires # NULL /\ now > expires

\* Mutant of ReRegistered: the row is reset to unverified.
ReRegistered_reset(row, token, expires) ==
    [row EXCEPT !.verification_token = token, !.token_expires_at = expires,
                !.verified = FALSE]

\* UPDATE users SET verification_token = ?, token_expires_at = ?, name = ?
ReRegistered(row, token, expires) ==
    [row EXCEPT !.verification_token = token, !.token_expires_at = expires]

\* The result of a call, and the status code of its response.
Result(op, key, token, result, status_code) ==
    [op |-> op, key |-> key, token |-> token, result |-> result,
     status_code |-> status_code]

\* The database holds the rows of some earlier users, the first email
\* possibly among them, all created on the first day and counted in its
\* daily_stats row.
InitAuth ==
    /\ SingleCallUnused
    /\ CallsUnused
    /\ WebUnused
    /\ RaceUnused
    /\ deployment \in {"password", "email"}
    /\ now = FirstHour
    /\ \E earlier \in {0, MAX_NEW_USERS_PER_DAY - 1} :
       \E known \in SUBSET {1} :
          LET keys == {OtherKey(i) : i \in 1..earlier} \cup known
          IN  /\ users = [k \in keys |-> EarlierRow]
              /\ daily_stats =
                    [d \in IF keys = {} THEN {} ELSE {DateOf(FirstHour)} |->
                        Cardinality(keys)]
    /\ waitlist = <<>>
    /\ issued = <<>>
    /\ cookies = {}
    /\ last = Result("none", NULL, NULL, "none", 0)

\* An hour passes.
Tick ==
    /\ now < MaxHour
    /\ now' = now + 1
    /\ UNCHANGED <<deployment, users, daily_stats, waitlist, issued, cookies, last>>
    /\ UNCHANGED <<pc, fn, args, ret, exc, callVars, webVars, raceVars>>

\* POST /admin/create-user of main.py: create_user raises 429 at the cap,
\* else inserts a row with a new password and counts it.
CreateUser ==
    /\ deployment = "password"
    /\ Len(issued) < MaxRegistrations
    /\ IF CapReached(users_created(today))
       THEN /\ last' = Result("create_user", NULL, NULL, "limit", 429)
            /\ UNCHANGED <<users, daily_stats, issued>>
       ELSE /\ users' = Insert(NewPassword, NewRow(NULL, NULL))
            /\ daily_stats' = CountUser(today)
            /\ issued' = Append(issued, NewPassword)
            /\ last' = Result("create_user", NewPassword, NULL, "created", 200)
    /\ UNCHANGED <<deployment, now, waitlist, cookies>>
    /\ UNCHANGED <<pc, fn, args, ret, exc, callVars, webVars, raceVars>>

\* POST /auth/register: register_user sends a new token to an existing
\* email, puts a new email on the waitlist at the cap, and else inserts its
\* row and counts it.
Register(email) ==
    /\ deployment = "email"
    /\ Len(issued) + Len(waitlist) < MaxRegistrations
    /\ IF email \in DOMAIN users
       THEN /\ users' = [users EXCEPT
                           ![email] = ReRegistered(@, NewToken, now + TOKEN_HOURS)]
            /\ issued' = Append(issued, email)
            /\ last' = Result("register", email, NewToken,
                              IF users[email].verified
                              THEN "existing_verified"
                              ELSE "existing_unverified", 200)
            /\ UNCHANGED <<daily_stats, waitlist>>
       ELSE IF CapReached(users_created(today))
       THEN /\ waitlist' = Append(waitlist, email)
            /\ last' = Result("register", email, NULL, "waitlisted", 200)
            /\ UNCHANGED <<users, daily_stats, issued>>
       ELSE /\ users' = Insert(email, NewRow(NewToken, now + TOKEN_HOURS))
            /\ daily_stats' = CountUser(today)
            /\ issued' = Append(issued, email)
            /\ last' = Result("register", email, NewToken, "created", 200)
            /\ UNCHANGED waitlist
    /\ UNCHANGED <<deployment, now, cookies>>
    /\ UNCHANGED <<pc, fn, args, ret, exc, callVars, webVars, raceVars>>

\* The keys of the rows whose verification_token is token.
RowsWith(token) == {k \in DOMAIN users : users[k].verification_token = token}

\* GET /auth/verify/{token}: verify_token finds no row (400), finds the token
\* expired (400), or marks the user verified and clears the token; then the
\* session cookie is set.
Verify(token) ==
    /\ deployment = "email"
    /\ IF RowsWith(token) = {}
       THEN /\ last' = Result("verify", NULL, token, "invalid", 400)
            /\ UNCHANGED <<users, cookies>>
       ELSE LET email == CHOOSE k \in RowsWith(token) : TRUE
            IN  IF Expired(users[email].token_expires_at)
                THEN /\ last' = Result("verify", email, token, "expired", 400)
                     /\ UNCHANGED <<users, cookies>>
                ELSE /\ users' = [users EXCEPT
                                    ![email].verified = TRUE,
                                    ![email].verification_token = NULL,
                                    ![email].token_expires_at = NULL]
                     /\ cookies' = cookies \cup {email}
                     /\ last' = Result("verify", email, token, "verified", 200)
    /\ UNCHANGED <<deployment, now, daily_stats, waitlist, issued>>
    /\ UNCHANGED <<pc, fn, args, ret, exc, callVars, webVars, raceVars>>

\* get_authenticated_user for a request that carries the session cookie of
\* email, if one was ever set: the row with that email and verified = 1.
get_authenticated_user(email) ==
    IF email \notin cookies THEN "anonymous"
    ELSE IF email \in DOMAIN users /\ users[email].verified THEN "authenticated"
    ELSE "anonymous"

\* GET /auth/status.
Status(email) ==
    /\ deployment = "email"
    /\ last' = Result("status", email, NULL, get_authenticated_user(email), 200)
    /\ UNCHANGED <<deployment, now, users, daily_stats, waitlist, issued, cookies>>
    /\ UNCHANGED <<pc, fn, args, ret, exc, callVars, webVars, raceVars>>

NextAuth ==
    \/ Tick
    \/ CreateUser
    \/ \E email \in Emails : Register(email)
    \/ \E token \in 1..(Len(issued) + 1) : Verify(token)
    \/ \E email \in Emails : Status(email)

SpecAuth == InitAuth /\ [][NextAuth]_vars

\* The step is a call of op: no other step leaves the clock alone and has
\* the result of a call of op as its last result.
StepOf(op) == now' = now /\ last'.op = op

\* The user rows created on a date.
CreatedOn(date) == {k \in DOMAIN users : DateOf(users[k].created_at) = date}

\* The counter of every date is within the cap and counts the rows created
\* on that date.
CapHolds ==
    /\ \A date \in DOMAIN daily_stats :
          /\ daily_stats[date] <= MAX_NEW_USERS_PER_DAY
          /\ daily_stats[date] = Cardinality(CreatedOn(date))
    /\ \A k \in DOMAIN users : DateOf(users[k].created_at) \in DOMAIN daily_stats

\* A registration of a new user at the cap creates no row and counts
\* nothing: create_user answers 429, register_user puts the email on the
\* waitlist and returns waitlisted.
RefusedAtCap ==
    users_created(today) >= MAX_NEW_USERS_PER_DAY =>
        /\ StepOf("create_user") =>
              /\ last'.status_code = 429
              /\ users' = users
              /\ daily_stats' = daily_stats
        /\ (StepOf("register") /\ last'.key \notin DOMAIN users) =>
              /\ last'.result = "waitlisted"
              /\ waitlist' = Append(waitlist, last'.key)
              /\ users' = users
              /\ daily_stats' = daily_stats

SessionsVerified ==
    /\ \A email \in cookies : email \in DOMAIN users /\ users[email].verified
    /\ (last.op = "status" /\ last.result = "authenticated")
          => (last.key \in DOMAIN users /\ users[last.key].verified)

\* A token is issued for TOKEN_HOURS; verify_token of a stored token whose
\* expiry has passed answers expired (400) and changes neither the row nor
\* the cookies; and a cookie is set only by a verify_token that succeeded,
\* on a stored token that had not expired.
LinkExpires ==
    /\ (StepOf("register") /\ last'.token # NULL) =>
          users'[last'.key].token_expires_at = now + TOKEN_HOURS
    /\ (StepOf("verify")
          /\ \E k \in DOMAIN users :
                /\ users[k].verification_token = last'.token
                /\ now > users[k].token_expires_at) =>
          /\ last'.result = "expired"
          /\ last'.status_code = 400
          /\ users' = users
          /\ cookies' = cookies
    /\ cookies' # cookies =>
          /\ StepOf("verify")
          /\ last'.result = "verified"
          /\ last'.status_code = 200
          /\ cookies' = cookies \cup {last'.key}
          /\ users[last'.key].verification_token = last'.token
          /\ now <= users[last'.key].token_expires_at
          /\ users'[last'.key].verified

\* C24: a verification link expires one hour after it was issued:
\* verify_token of an expired token reports it as expired and leaves verified
\* and the stored token as they are, /auth/verify answers 400 and sets no
\* cookie; a cookie is set only after verify_token succeeded, so
\* get_authenticated_user returns a user only for an email with verified = 1.
C24_LinkExpires == []SessionsVerified /\ [][LinkExpires]_vars

\* /auth/verify has answered that the token of an unverified user is
\* expired; the token is still stored and no cookie is set.
C24_Witness ==
    /\ last.op = "verify"
    /\ last.result = "expired"
    /\ last.status_code = 400
    /\ users[last.key].verification_token = last.token
    /\ ~users[last.key].verified
    /\ last.key \notin cookies
    /\ now > users[last.key].token_expires_at

\* The tokens issued to an email so far.
TokensOf(email) == {token \in 1..Len(issued) : issued[token] = email}

\* The token a row stores is the last one issued to its email, so that a
\* user has at most one token that verify_token accepts.
OneTokenPerUser ==
    deployment = "email" =>
        \A k \in DOMAIN users :
            users[k].verification_token # NULL =>
                /\ users[k].verification_token \in TokensOf(k)
                /\ \A token \in TokensOf(k) : token <= users[k].verification_token
                /\ RowsWith(users[k].verification_token) = {k}

\* A token that no row stores is never stored again and verify_token does
\* nothing for it; a verify_token that succeeded removes the token; and
\* register_user for an email that has a row issues a fresh token and leaves
\* verified, usage_count and the day's counter as they are.
TokenSingleUse ==
    /\ \A token \in 1..Len(issued) :
          RowsWith(token) = {} =>
              \A k \in DOMAIN users' : users'[k].verification_token # token
    /\ (StepOf("verify") /\ RowsWith(last'.token) = {}) =>
          /\ last'.result = "invalid"
          /\ last'.status_code = 400
          /\ users' = users
          /\ cookies' = cookies
    /\ (StepOf("verify") /\ last'.result = "verified") =>
          \A k \in DOMAIN users' : users'[k].verification_token # last'.token
    /\ (StepOf("register") /\ last'.key \in DOMAIN users) =>
          /\ last'.result \in {"existing_verified", "existing_unverified"}
          /\ users'[last'.key].verification_token = Len(issued')
          /\ Len(issued') = Len(issued) + 1
          /\ users'[last'.key].verification_token # users[last'.key].verification_token
          /\ users'[last'.key].verified = users[last'.key].verified
          /\ users'[last'.key].usage_count = users[last'.key].usage_count
          /\ users'[last'.key].created_at = users[last'.key].created_at
          /\ daily_stats' = daily_stats
          /\ waitlist' = waitlist

\* C29: a verification token is single-use and at most one token per user
\* is usable: a successful verification deletes the token, a token that was
\* consumed or replaced verifies nothing, and registering an existing email
\* again replaces the token without changing verified, usage_count or the
\* daily counter.
C29_TokenSingleUse == []OneTokenPerUser /\ [][TokenSingleUse]_vars

\* A verified user with analyses used has registered twice more: the second
\* token replaced the first, which /auth/verify then refused, and the row
\* is still verified with its usage count.
C29_Witness ==
    /\ last.op = "verify"
    /\ last.result = "invalid"
    /\ last.token \in TokensOf(1)
    /\ users[1].verification_token \in TokensOf(1)
    /\ users[1].verification_token > last.token
    /\ users[1].verified
    /\ users[1].usage_count = EarlierRow.usage_count

====
